---------------------------- MODULE Spec2Model ----------------------------
(***************************************************************************)
(* N-Queens bitmask backtracking solver (src/solver.cpp and its two        *)
(* near-duplicate variants src/unnamed/part_000, src/unnamed/part_001).    *)
(*                                                                         *)
(* One run of main is modelled as a state machine.  uint64_t masks are     *)
(* sets of bit positions in 0..63; the recursion of solve and of the       *)
(* self-recursive closure of solveWithSymmetry is an explicit call stack;  *)
(* the sink is the sequence of records handed to printSolution /           *)
(* printMirrorSolution, and the bytes they put in outBuffer and tempFile.  *)
(***************************************************************************)
EXTENDS Integers, Sequences, FiniteSets, TLC

VARIABLES
    variant,        \* which of the three source files is running
    input,          \* content of the input file: an integer, or Unparseable
    N,              \* int N (boardSize)
    LIMIT,          \* uint64_t LIMIT (fullMask, fullBoardMask)
    solutionCount,  \* long long solutionCount (totalSolutions...)
    stopSearch,     \* bool stopSearch (terminateSearch)
    path,           \* the shared vector<int> path / placement
    out,            \* records handed to the sink, in emission order
    outBuffer,      \* char outBuffer[]: the bytes last written at each index touched
    bufferPos,      \* int bufferPos
    tempFile,       \* bytes fwritten to the temporary file
    stack,          \* activation records of solve / symmetricSolve, top last
    pc,             \* position of main / solveWithSymmetry
    col,            \* loop variable of solveWithSymmetry's first-half loop
    result,         \* what main reported
    summary         \* N and count written to the output file by main

vars == <<variant, input, N, LIMIT, solutionCount, stopSearch, path, out,
          outBuffer, bufferPos, tempFile, stack, pc, col, result, summary>>

-----------------------------------------------------------------------------
(* Bounds and program constants *)

\* const int FIND_ALL_LIMIT = 21 (ENUMERATION_LIMIT in part_000, literal 21 in part_001)
FIND_ALL_LIMIT == 21

\* const long long MAX_SOLUTIONS_LARGE_N = 1000 in the source.  The model bounds
\* the cap: reaching 1000 solutions on a 21x21 board takes about 3 million calls.
MAX_SOLUTIONS_LARGE_N == 3

\* smallest and largest board size read from the input file below the threshold
MinN == 2
MaxN == 8

\* width of uint64_t
WORD == 64

\* char outBuffer[65536] in the source.  The model bounds the buffer so that the
\* records of the small boards fill it and flush it several times.
OUT_BUFFER_SIZE == 13

Variants == {"solver", "part_000", "part_001"}

\* an input file that cannot be opened or holds no integer
Unparseable == [ok |-> FALSE, value |-> 0]

Parsed(n) == [ok |-> TRUE, value |-> n]

\* MinN is the magnitude of the most negative input
SmallSizes == (0 - MinN)..MaxN

-----------------------------------------------------------------------------
(* C++ integer arithmetic *)

\* int / int truncates toward zero
CDiv(a, b) == IF a >= 0 THEN a \div b ELSE 0 - ((0 - a) \div b)

\* int % int has the sign of the dividend
CRem(a, b) == IF a >= 0 THEN a % b ELSE 0 - ((0 - a) % b)

(* uint64_t as the set of its set bits *)
Word == 0..(WORD - 1)

ShiftLeft(m) == {b + 1 : b \in {x \in m : x + 1 < WORD}}

ShiftRight(m) == {b - 1 : b \in {x \in m : x >= 1}}

\* mutant: half rounds up, so the middle column of an odd board is in the loop too
HalfRoundedUp(n) == CDiv(n + 1, 2)

\* int half = N / 2
Half(n) == CDiv(n, 2)

\* p & -p : the lowest set bit, as a mask
LowestBit(m) == {CHOOSE b \in m : \A x \in m : b <= x}

\* __builtin_ctzll of a one-bit mask
Ctz(m) == CHOOSE b \in m : TRUE

\* mutant: the bit is shifted by the 1-based column, 1ULL << (k + 1)
BitOneBased(k) == {k + 1}

\* 1ULL << k, defined for 0 <= k < 64
Bit(k) == {k}

\* ~(cols | diagLeft | diagRight) & LIMIT
Available(cols, dl, dr, lim) == lim \ (cols \cup dl \cup dr)


\* (1ULL << n) - 1.  Shifting by a negative count or by 64 and more is undefined.
\* For a negative count the outcomes are an empty mask, a full mask and the
\* x86-64 result (the count taken modulo 64).  For a count of 64 and more only
\* the x86-64 result is followed: a full mask starts a search over 64 columns.
MaskOf(n) ==
    IF n >= 0 /\ n < WORD
    THEN {0..(n - 1)}
    ELSE IF n < 0
         THEN {{}, Word, 0..((n % WORD) - 1)}
         ELSE {0..((n % WORD) - 1)}

-----------------------------------------------------------------------------
(* Variant policies *)

\* mutant: only the 2x2 board is short-circuited
UnsolvableOnlyTwo(v, n) == n = 2

\* main: the "No Solution" short-circuit
Unsolvable(v, n) ==
    IF v = "part_000" THEN n = 2 \/ n = 3 ELSE n < 4 /\ n # 1

\* solveWithSymmetry: boards handled by the plain solver alone
PlainOnly(v, n) ==
    IF v = "part_001" THEN n <= 1 \/ n >= FIND_ALL_LIMIT ELSE n >= FIND_ALL_LIMIT

\* solve / backtrack: whether the function tests the stop flag at all
ChecksStop(v) == v \in {"solver", "part_000"}

\* mutant: the cap is compared with > instead of >=
CapReachedLate(v, n, count) ==
    v = "solver" /\ n >= FIND_ALL_LIMIT /\ count > MAX_SOLUTIONS_LARGE_N

\* solve: the cap of the large-board policy, set only by solver.cpp
CapReached(v, n, count) ==
    v = "solver" /\ n >= FIND_ALL_LIMIT /\ count >= MAX_SOLUTIONS_LARGE_N

-----------------------------------------------------------------------------
(* Records *)

\* what a read past the end of the vector may return
OutOfBoundsValues == {0 - 1, 0, 1}

\* path[i - 1]: operator[] does not check the index; g is what a read past the
\* end returns
At(p, i, g) == IF i <= Len(p) THEN p[i] ELSE g

\* printSolution: the first N entries of the placement
Record(p, n, g) == [i \in 1..n |-> At(p, i, g)]

\* mutant: the mirror is computed as N - path[i]
MirrorRecordOffByOne(p, n, g) == [i \in 1..n |-> n - At(p, i, g)]

\* printMirrorSolution: (N + 1) - path[i]
MirrorRecord(p, n, g) == [i \in 1..n |-> (n + 1) - At(p, i, g)]

\* vector::pop_back
PopBack(p) == SubSeq(p, 1, Len(p) - 1)

\* vector::push_back
PushBack(p, v) == Append(p, v)

-----------------------------------------------------------------------------
(* Fast buffered output.  A sink state s is [buf, pos, file]: the bytes of
   outBuffer at the indices written so far (a flush leaves them in place),
   bufferPos, and the bytes written to the temporary file.  Bytes are ASCII
   codes. *)

sinkVars == <<outBuffer, bufferPos, tempFile>>

Sink == [buf |-> outBuffer, pos |-> bufferPos, file |-> tempFile]

SetSink(s) ==
    /\ outBuffer' = s.buf
    /\ bufferPos' = s.pos
    /\ tempFile' = s.file

\* mutant: the buffer is reset without being written to the file
FlushBufferDropped(s) == [s EXCEPT !.pos = 0]

\* flushBuffer: fwrite(outBuffer, 1, bufferPos, tempFile); bufferPos = 0
FlushBuffer(s) ==
    IF s.pos > 0
    THEN [s EXCEPT !.file = s.file \o SubSeq(s.buf, 1, s.pos), !.pos = 0]
    ELSE s

\* outBuffer[bufferPos++] = b; index bufferPos of the array is position pos + 1
Store(s, b) ==
    [s EXCEPT !.buf = IF s.pos < Len(s.buf)
                      THEN [s.buf EXCEPT ![s.pos + 1] = b]
                      ELSE Append(s.buf, b),
              !.pos = s.pos + 1]

\* do { temp[len++] = char('0' + (x % 10)); x /= 10; } while (x);
RECURSIVE TempDigits(_)
TempDigits(x) ==
    <<48 + CRem(x, 10)>> \o (IF CDiv(x, 10) # 0 THEN TempDigits(CDiv(x, 10)) ELSE <<>>)

\* while (len--) outBuffer[bufferPos++] = temp[len];
RECURSIVE StoreBackwards(_, _, _)
StoreBackwards(s, temp, len) ==
    IF len = 0 THEN s ELSE StoreBackwards(Store(s, temp[len]), temp, len - 1)

\* the values the sink can take.  The write calls are functions of the sink:
\* each is handed the sink its predecessor left, as a value.
SinkStates == [buf : Seq(Int), pos : Nat, file : Seq(Int)]

\* writeInt
WriteInt[s \in SinkStates, x \in Int] ==
    StoreBackwards(IF s.pos + Len(TempDigits(x)) + 1 >= OUT_BUFFER_SIZE
                   THEN FlushBuffer(s) ELSE s,
                   TempDigits(x), Len(TempDigits(x)))

\* writeSpace
WriteSpace[s \in SinkStates] ==
    Store(IF s.pos >= OUT_BUFFER_SIZE THEN FlushBuffer(s) ELSE s, 32)

\* writeNewLine
WriteNewLine[s \in SinkStates] ==
    Store(IF s.pos >= OUT_BUFFER_SIZE THEN FlushBuffer(s) ELSE s, 10)

\* one turn of the loop of printSolution / printMirrorSolution: the value of
\* row i, and a space unless it is the last of the n rows
PrintRow(s, values, i, n) ==
    IF i < n THEN WriteSpace[WriteInt[s, values[i]]] ELSE WriteInt[s, values[i]]

\* printSolution / printMirrorSolution: the turns of rows i..n, then a newline
PrintValues[s \in SinkStates, values \in Seq(Int), i \in Nat, n \in Int] ==
    IF i <= n
    THEN PrintValues[PrintRow(s, values, i, n), values, i + 1, n]
    ELSE WriteNewLine[s]

-----------------------------------------------------------------------------
(* Call stack *)

Frame(fn, cols, dl, dr, entryPath) ==
    [fn |-> fn, cols |-> cols, dl |-> dl, dr |-> dr, possible |-> {},
     pc |-> "entry", entry |-> entryPath]

Top == stack[Len(stack)]

SetTop(f) == [stack EXCEPT ![Len(stack)] = f]

Return == SubSeq(stack, 1, Len(stack) - 1)

\* push_back(column + 1) followed by the recursive call on the updated masks
Descend(fn, f, bit, newPossible) ==
    /\ path' = PushBack(path, Ctz(bit) + 1)
    /\ stack' = Append(SetTop([f EXCEPT !.possible = newPossible, !.pc = "called"]),
                       Frame(fn, f.cols \cup bit,
                             ShiftLeft(f.dl \cup bit),
                             ShiftRight(f.dr \cup bit),
                             PushBack(path, Ctz(bit) + 1)))

-----------------------------------------------------------------------------
(* Initial state: globals as initialised, an input file chosen *)

\* Every variant is run on the small sizes and on a board one column wider than
\* the 64-bit masks.  A board at the threshold is run on solver.cpp alone: the
\* other two variants never set a cap, and enumerate the more than 10^11
\* solutions of the 21x21 board.
Inputs(v) ==
    {Parsed(n) : n \in SmallSizes} \cup {Unparseable, Parsed(WORD + 1)}
        \cup (IF v = "solver" THEN {Parsed(FIND_ALL_LIMIT)} ELSE {})

Init ==
    /\ variant \in Variants
    /\ input \in Inputs(variant)
    /\ N = 0
    /\ LIMIT = {}
    /\ solutionCount = 0
    /\ stopSearch = FALSE
    /\ path = <<>>
    /\ out = <<>>
    /\ stack = <<>>
    /\ pc = "start"
    /\ col = 0
    /\ result = "none"
    /\ outBuffer = <<>>
    /\ bufferPos = 0
    /\ tempFile = <<>>
    /\ summary = [n |-> 0, count |-> 0, records |-> <<>>, bytes |-> <<>>]

-----------------------------------------------------------------------------
(* main, up to the call of solveWithSymmetry *)

MainRead ==
    /\ pc = "start"
    /\ UNCHANGED sinkVars
    /\ UNCHANGED <<variant, input, solutionCount, stopSearch, path, out, stack,
                   col, summary>>
    /\ IF input = Unparseable
       THEN /\ result' = "InvalidInput"
            /\ pc' = "exit"
            /\ UNCHANGED <<N, LIMIT>>
       ELSE /\ N' = input.value
            /\ IF Unsolvable(variant, input.value)
               THEN /\ result' = "NoSolution"
                    /\ pc' = "exit"
                    /\ UNCHANGED LIMIT
               ELSE \E lim \in MaskOf(input.value), tmpOk \in BOOLEAN :
                        /\ LIMIT' = lim
                        /\ IF tmpOk
                           THEN pc' = "sws" /\ UNCHANGED result
                           ELSE pc' = "exit" /\ result' = "TempFileError"

(* solveWithSymmetry *)

SwsEnter ==
    /\ pc = "sws"
    /\ UNCHANGED sinkVars
    /\ UNCHANGED <<variant, input, N, LIMIT, solutionCount, stopSearch, path, out,
                   result, summary>>
    /\ IF PlainOnly(variant, N)
       THEN /\ stack' = <<Frame("solve", {}, {}, {}, path)>>
            /\ pc' = "plain"
            /\ UNCHANGED col
       ELSE /\ col' = 0
            /\ pc' = "half"
            /\ UNCHANGED stack

\* for (col = 0; col < half; col++): seed the closure with the first-row queen
SwsHalf ==
    /\ pc = "half"
    /\ stack = <<>>
    /\ UNCHANGED sinkVars
    /\ UNCHANGED <<variant, input, N, LIMIT, solutionCount, stopSearch, out,
                   result, summary, col>>
    /\ IF col < Half(N)
       THEN /\ path' = PushBack(path, col + 1)
            /\ stack' = <<Frame("sym", Bit(col), ShiftLeft(Bit(col)),
                                ShiftRight(Bit(col)), PushBack(path, col + 1))>>
            /\ pc' = "halfcall"
       ELSE /\ pc' = "mid"
            /\ UNCHANGED <<path, stack>>

\* the closure returned: path.pop_back(); col++
SwsHalfReturn ==
    /\ pc = "halfcall"
    /\ stack = <<>>
    /\ path' = PopBack(path)
    /\ col' = col + 1
    /\ pc' = "half"
    /\ UNCHANGED sinkVars
    /\ UNCHANGED <<variant, input, N, LIMIT, solutionCount, stopSearch, out,
                   stack, result, summary>>

\* mutant: the middle column of an odd board is never explored
SwsMidSkipped ==
    /\ pc = "mid"
    /\ pc' = "flush"
    /\ UNCHANGED sinkVars
    /\ UNCHANGED <<variant, input, N, LIMIT, solutionCount, stopSearch, path, out,
                   stack, result, summary, col>>

\* if (N % 2 == 1): the middle column goes to the plain solver
SwsMid ==
    /\ pc = "mid"
    /\ UNCHANGED sinkVars
    /\ UNCHANGED <<variant, input, N, LIMIT, solutionCount, stopSearch, out,
                   result, summary, col>>
    /\ IF CRem(N, 2) = 1
       THEN /\ path' = PushBack(path, CDiv(N, 2) + 1)
            /\ stack' = <<Frame("solve", Bit(CDiv(N, 2)), ShiftLeft(Bit(CDiv(N, 2))),
                                ShiftRight(Bit(CDiv(N, 2))),
                                PushBack(path, CDiv(N, 2) + 1))>>
            /\ pc' = "midcall"
       ELSE /\ pc' = "flush"
            /\ UNCHANGED <<path, stack>>

SwsMidReturn ==
    /\ pc = "midcall"
    /\ stack = <<>>
    /\ path' = PopBack(path)
    /\ pc' = "flush"
    /\ UNCHANGED sinkVars
    /\ UNCHANGED <<variant, input, N, LIMIT, solutionCount, stopSearch, out,
                   stack, result, summary, col>>

SwsPlainReturn ==
    /\ pc = "plain"
    /\ stack = <<>>
    /\ pc' = "flush"
    /\ UNCHANGED sinkVars
    /\ UNCHANGED <<variant, input, N, LIMIT, solutionCount, stopSearch, path, out,
                   stack, result, summary, col>>

(* main, after solveWithSymmetry returned: flush and write the summary *)

MainSummary ==
    /\ pc = "flush"
    /\ SetSink(FlushBuffer(Sink))
    /\ summary' = [n |-> N, count |-> solutionCount, records |-> out,
                   bytes |-> FlushBuffer(Sink).file]
    /\ result' = "Summary"
    /\ pc' = "exit"
    /\ UNCHANGED <<variant, input, N, LIMIT, solutionCount, stopSearch, path, out,
                   stack, col>>


-----------------------------------------------------------------------------
(* solve (backtrack in part_000): the plain recursive search *)

\* from the entry of a call to its first recursive call or its return
SolveEntry ==
    /\ stack # <<>>
    /\ Top.fn = "solve"
    /\ Top.pc = "entry"
    /\ UNCHANGED <<variant, input, N, LIMIT, path, pc, col, result, summary>>
    /\ IF ChecksStop(variant) /\ stopSearch
       THEN /\ stack' = Return
            /\ UNCHANGED <<solutionCount, stopSearch, out>>
            /\ UNCHANGED sinkVars
       ELSE IF Top.cols = LIMIT
            THEN /\ solutionCount' = solutionCount + 1
                 /\ \E g \in OutOfBoundsValues :
                        /\ out' = Append(out, [rec |-> Record(path, N, g), by |-> "solve"])
                        /\ SetSink(PrintValues[Sink, Record(path, N, g), 1, N])
                 /\ stopSearch' = IF CapReached(variant, N, solutionCount + 1)
                                  THEN TRUE ELSE stopSearch
                 /\ stack' = Return
            ELSE /\ stack' = SetTop([Top EXCEPT
                        !.possible = Available(Top.cols, Top.dl, Top.dr, LIMIT),
                        !.pc = "loop"])
                 /\ UNCHANGED <<solutionCount, stopSearch, out>>
                 /\ UNCHANGED sinkVars

\* one test of while (possible): leave, stop, or place the lowest column and recurse
SolveLoop ==
    /\ stack # <<>>
    /\ Top.fn = "solve"
    /\ Top.pc = "loop"
    /\ UNCHANGED sinkVars
    /\ UNCHANGED <<variant, input, N, LIMIT, solutionCount, stopSearch, out, pc,
                   col, result, summary>>
    /\ IF Top.possible = {} \/ (ChecksStop(variant) /\ stopSearch)
       THEN /\ stack' = Return
            /\ UNCHANGED path
       ELSE Descend("solve", Top, LowestBit(Top.possible),
                    Top.possible \ LowestBit(Top.possible))

\* mutant: the placement is not retracted after the recursive call
SolveBacktrackNoPop ==
    /\ stack # <<>>
    /\ Top.fn = "solve"
    /\ Top.pc = "called"
    /\ stack' = SetTop([Top EXCEPT !.pc = "loop"])
    /\ UNCHANGED sinkVars
    /\ UNCHANGED <<variant, input, N, LIMIT, solutionCount, stopSearch, path, out,
                   pc, col, result, summary>>

\* the recursive call returned: path.pop_back()
SolveBacktrack ==
    /\ stack # <<>>
    /\ Top.fn = "solve"
    /\ Top.pc = "called"
    /\ path' = PopBack(path)
    /\ stack' = SetTop([Top EXCEPT !.pc = "loop"])
    /\ UNCHANGED sinkVars
    /\ UNCHANGED <<variant, input, N, LIMIT, solutionCount, stopSearch, out, pc,
                   col, result, summary>>

(* symmetricSolve: the self-recursive closure of solveWithSymmetry *)

\* entry of the closure: the base case emits the solution, otherwise compute p
SymEntry ==
    /\ stack # <<>>
    /\ Top.fn = "sym"
    /\ Top.pc = "entry"
    /\ UNCHANGED <<variant, input, N, LIMIT, stopSearch, path, pc, col, result,
                   summary>>
    /\ IF Top.cols = LIMIT
       THEN /\ solutionCount' = solutionCount + 1
            /\ \E g \in OutOfBoundsValues :
                   /\ out' = Append(out, [rec |-> Record(path, N, g), by |-> "sym"])
                   /\ SetSink(PrintValues[Sink, Record(path, N, g), 1, N])
            /\ stack' = SetTop([Top EXCEPT !.pc = "mirror"])
       ELSE /\ stack' = SetTop([Top EXCEPT
                   !.possible = Available(Top.cols, Top.dl, Top.dr, LIMIT),
                   !.pc = "loop"])
            /\ UNCHANGED <<solutionCount, out>>
            /\ UNCHANGED sinkVars

\* mutant: the mirrored solution is emitted but not counted
SymMirrorUncounted ==
    /\ stack # <<>>
    /\ Top.fn = "sym"
    /\ Top.pc = "mirror"
    /\ \E g \in OutOfBoundsValues :
           /\ out' = Append(out, [rec |-> MirrorRecord(path, N, g), by |-> "mirror"])
           /\ SetSink(PrintValues[Sink, MirrorRecord(path, N, g), 1, N])
    /\ stack' = Return
    /\ UNCHANGED <<variant, input, N, LIMIT, solutionCount, stopSearch, path, pc,
                   col, result, summary>>

\* second half of the base case: count and emit the mirrored solution, return
SymMirror ==
    /\ stack # <<>>
    /\ Top.fn = "sym"
    /\ Top.pc = "mirror"
    /\ solutionCount' = solutionCount + 1
    /\ \E g \in OutOfBoundsValues :
           /\ out' = Append(out, [rec |-> MirrorRecord(path, N, g), by |-> "mirror"])
           /\ SetSink(PrintValues[Sink, MirrorRecord(path, N, g), 1, N])
    /\ stack' = Return
    /\ UNCHANGED <<variant, input, N, LIMIT, stopSearch, path, pc, col, result,
                   summary>>

SymLoop ==
    /\ stack # <<>>
    /\ Top.fn = "sym"
    /\ Top.pc = "loop"
    /\ UNCHANGED sinkVars
    /\ UNCHANGED <<variant, input, N, LIMIT, solutionCount, stopSearch, out, pc,
                   col, result, summary>>
    /\ IF Top.possible = {}
       THEN /\ stack' = Return
            /\ UNCHANGED path
       ELSE Descend("sym", Top, LowestBit(Top.possible),
                    Top.possible \ LowestBit(Top.possible))

SymBacktrack ==
    /\ stack # <<>>
    /\ Top.fn = "sym"
    /\ Top.pc = "called"
    /\ path' = PopBack(path)
    /\ stack' = SetTop([Top EXCEPT !.pc = "loop"])
    /\ UNCHANGED sinkVars
    /\ UNCHANGED <<variant, input, N, LIMIT, solutionCount, stopSearch, out, pc,
                   col, result, summary>>

-----------------------------------------------------------------------------

Next ==
    \/ MainRead
    \/ SwsEnter
    \/ SwsHalf
    \/ SwsHalfReturn
    \/ SwsMid
    \/ SwsMidReturn
    \/ SwsPlainReturn
    \/ MainSummary
    \/ SolveEntry
    \/ SolveLoop
    \/ SolveBacktrack
    \/ SymEntry
    \/ SymMirror
    \/ SymLoop
    \/ SymBacktrack

Spec == Init /\ [][Next]_vars


\* a sequential program always takes its next step
FairSpec == Init /\ [][Next]_vars /\ WF_vars(Next)

-----------------------------------------------------------------------------
(* Reference definitions for the claims, independent of the search *)

Abs(x) == IF x >= 0 THEN x ELSE 0 - x

\* a full placement of n queens, one per row, no two attacking each other
ValidPlacement(r, n) ==
    /\ DOMAIN r = 1..n
    /\ \A i \in 1..n : r[i] \in 1..n
    /\ \A i \in 1..n : \A j \in (i + 1)..n :
          r[i] # r[j] /\ Abs(r[i] - r[j]) # j - i

NoAttack(s, c) ==
    \A i \in 1..Len(s) : s[i] # c /\ Abs(s[i] - c) # (Len(s) + 1) - i

\* all non-attacking placements of k queens on the first k rows of an n x n board
RECURSIVE Placements(_, _)
Placements(n, k) ==
    IF k = 0
    THEN {<<>>}
    ELSE {Append(x[1], x[2]) :
            x \in {y \in Placements(n, k - 1) \X (1..n) : NoAttack(y[1], y[2])}}

AllSolutions == [n \in 1..MaxN |-> Placements(n, n)]

\* the left-right reflection of a placement
Reflect(r, n) == [i \in 1..n |-> (n + 1) - r[i]]

Records(o) == {o[k].rec : k \in 1..Len(o)}

Finished == pc = "exit" /\ result = "Summary"

-----------------------------------------------------------------------------
(* C1: for every board size N >= 1 that reaches the search, every record handed
   to the sink, by solve, by the symmetric recursion or as a mirror, is a full
   placement of N values in 1..N that are pairwise distinct and share no
   diagonal. *)
C1_EmittedRecordsValid ==
    [][\A k \in (Len(out) + 1)..Len(out') :
            N' >= 1 /\ ValidPlacement(out'[k].rec, N')]_vars

\* the same for the boards that fit the 64-bit masks
ValidWithinWord ==
    [][N' < WORD =>
         \A k \in (Len(out) + 1)..Len(out') :
            N' >= 1 /\ ValidPlacement(out'[k].rec, N')]_vars

(* C2: the final count is 1 for N = 1 (the single record 1), 2 for N = 4 (both
   2 4 1 3 and 3 1 4 2 appear) and 92 for N = 8: the true number of placements. *)
C2_KnownCounts ==
    Finished =>
        /\ N = 1 => summary.count = 1 /\ summary.records = <<[rec |-> <<1>>, by |-> "solve"]>>
        /\ N = 4 => /\ summary.count = 2
                    /\ Records(summary.records) = {<<2, 4, 1, 3>>, <<3, 1, 4, 2>>}
        /\ N = 8 => summary.count = 92
        /\ N \in {1, 4, 8} => summary.count = Cardinality(AllSolutions[N])

C2_Witness == Finished /\ N = 8 /\ summary.count = 92 /\ Len(out) = 92

(* C3: for 1 <= N < 21 every valid placement is reported exactly once: the
   records of a finished run are pairwise distinct and are exactly the valid
   placements of the board. *)
C3_ExactlyOnce ==
    (Finished /\ N >= 1 /\ N <= MaxN) =>
        /\ Records(out) = AllSolutions[N]
        /\ \A i, j \in 1..Len(out) : i # j => out[i].rec # out[j].rec

\* an odd board: first-half solutions, mirrors and middle-column solutions
C3_Witness ==
    /\ Finished
    /\ N = 7
    /\ Len(out) = 40
    /\ \E k \in 1..Len(out) : out[k].by = "solve"

(* C4: on the symmetry-optimized path every solution found with the first-row
   queen in a column below N/2 is followed at once by its mirror, and no mirror
   is attached to a solution of the middle-column plain search. *)
C4_MirrorFollows ==
    (N >= 1 /\ N < FIND_ALL_LIMIT) =>
        \A k \in 1..Len(out) :
            /\ out[k].rec[1] <= CDiv(N, 2) => out[k].by = "sym"
            /\ out[k].by = "sym" =>
                  IF k < Len(out)
                  THEN out[k + 1] = [rec |-> Reflect(out[k].rec, N), by |-> "mirror"]
                  ELSE stack # <<>> /\ Top.fn = "sym" /\ Top.pc = "mirror"
            /\ out[k].by = "mirror" => k > 1 /\ out[k - 1].by = "sym"
            /\ out[k].by = "solve" =>
                  /\ out[k].rec[1] = CDiv(N, 2) + 1
                  /\ k < Len(out) => out[k + 1].by # "mirror"

\* a mirror just emitted after its original, then a middle-column solution
C4_Witness ==
    /\ N = 5
    /\ Len(out) >= 3
    /\ out[Len(out)].by = "solve"
    /\ out[Len(out) - 1].by = "mirror"
    /\ out[Len(out) - 2].by = "sym"


(* C5: at and above the large-board threshold the reported count never exceeds
   the cap; reaching the cap sets the stop flag; once the flag is set no queen
   is placed and no record is emitted; and the run terminates. *)
C5_CapBoundsSearch ==
    /\ []((variant = "solver" /\ N >= FIND_ALL_LIMIT) =>
            /\ solutionCount <= MAX_SOLUTIONS_LARGE_N
            /\ Len(out) <= MAX_SOLUTIONS_LARGE_N
            /\ solutionCount >= MAX_SOLUTIONS_LARGE_N => stopSearch)
    /\ [][stopSearch =>
            /\ stopSearch'
            /\ out' = out
            /\ solutionCount' = solutionCount
            /\ Len(path') <= Len(path)
            /\ Len(stack') <= Len(stack)]_vars
    /\ []((variant = "solver" /\ input.value >= FIND_ALL_LIMIT) => <>(pc = "exit"))

\* the flag was set deep in the recursion and the run ended with the capped count
C5_Witness ==
    /\ Finished
    /\ N >= FIND_ALL_LIMIT
    /\ stopSearch
    /\ summary.count = MAX_SOLUTIONS_LARGE_N

(* C6: a non-positive board size is detected before the search and reported as
   a failure distinct from the "No Solution" outcome of N in {2,3}; the search
   never runs for it. *)
C6_NonPositiveIsDistinctFailure ==
    (input.ok /\ input.value <= 0) =>
        /\ pc \in {"start", "exit"}
        /\ pc = "exit" => result \notin {"NoSolution", "Summary"}

(* C7: for N in {2,3} the run ends with "No Solution", nothing counted and
   nothing emitted, and solveWithSymmetry / solve are never entered. *)
C7_TwoThreeShortCircuit ==
    (input.ok /\ input.value \in {2, 3}) =>
        /\ pc \in {"start", "exit"}
        /\ stack = <<>>
        /\ solutionCount = 0
        /\ out = <<>>
        /\ pc = "exit" => result = "NoSolution"

C7_Witness == pc = "exit" /\ N = 3 /\ result = "NoSolution"

(* C8: the count never decreases, goes up by exactly one with each record
   handed to the sink and not otherwise, and the count of the summary is the
   number of records emitted. *)
C8_CountMatchesRecords ==
    /\ [][\/ solutionCount' = solutionCount /\ out' = out
          \/ /\ solutionCount' = solutionCount + 1
             /\ Len(out') = Len(out) + 1
             /\ SubSeq(out', 1, Len(out)) = out]_vars
    /\ [](Finished => summary.count = Len(summary.records) /\ summary.records = out)

\* a finished run that counted originals, mirrors and middle-column solutions
C8_Witness ==
    /\ Finished
    /\ N = 7
    /\ summary.count = 40
    /\ Len(summary.records) = 40

(* C9: at every entry to solve and to the symmetric recursion, the seeded calls
   included, the placement is as long as the number of set bits of the
   occupied-columns mask, and that mask is within the full mask. *)
C9_PathMatchesColumns ==
    (stack # <<>> /\ Top.pc = "entry") =>
        /\ Len(path) = Cardinality(Top.cols)
        /\ Top.cols \subseteq LIMIT

\* the seeded middle-column call of solve, just entered
C9_Witness ==
    /\ Len(stack) = 1
    /\ Top.fn = "solve"
    /\ Top.pc = "entry"
    /\ N = 7
    /\ path = <<4>>

(* C10: every call of solve and of the symmetric recursion returns with the
   placement it was entered with, restores it before each sibling, and the
   placement is empty when solveWithSymmetry returns. *)
C10_PathRestored ==
    /\ [][Len(stack') < Len(stack) => path' = Top.entry /\ path = Top.entry]_vars
    /\ [](stack # <<>> /\ Top.pc \in {"entry", "loop", "mirror"} => path = Top.entry)
    /\ [](pc \in {"flush", "exit"} => path = <<>>)

\* solveWithSymmetry returned after calls that ended on the stop flag
C10_Witness ==
    /\ pc = "flush"
    /\ stopSearch
    /\ path = <<>>
    /\ Len(out) > 0

-----------------------------------------------------------------------------
(* The text of the output, stated without the buffer *)

\* the decimal text of a natural number, most significant digit first
RECURSIVE Decimal(_)
Decimal(x) == IF x < 10 THEN <<48 + x>> ELSE Decimal(x \div 10) \o <<48 + (x % 10)>>

\* the first k values of a record, separated by single spaces
RECURSIVE Joined(_, _)
Joined(r, k) ==
    IF k = 0
    THEN <<>>
    ELSE Joined(r, k - 1) \o (IF k > 1 THEN <<32>> ELSE <<>>) \o Decimal(r[k])

\* the line of a record: its values separated by spaces, ended by a newline
Line(r) == Joined(r, Len(r)) \o <<10>>

\* the lines of the records k, k + 1, ... of o, in order
RECURSIVE Lines(_, _)
Lines(o, k) == IF k > Len(o) THEN <<>> ELSE Line(o[k].rec) \o Lines(o, k + 1)

\* the records k, k + 1, ... of o hold natural numbers only
NaturalFrom(o, k) ==
    \A j \in k..Len(o) : \A i \in 1..Len(o[j].rec) : o[j].rec[i] \in Nat

\* what the output holds: the bytes flushed to the temporary file, then the
\* bytes still in the buffer
Contents == tempFile \o SubSeq(outBuffer, 1, bufferPos)

(* C11: the buffer position stays within 0..capacity and no byte is ever stored
   at an index of the buffer at or past the capacity; each step appends to the
   flushed bytes followed by the buffered bytes exactly the lines of the
   records it emitted, in emission order, and nothing else; and what the
   summary copies from the temporary file is that file with the buffer
   emptied into it.  Lines are compared for records of natural numbers. *)
C11_SinkKeepsBytes ==
    /\ [](bufferPos \in 0..OUT_BUFFER_SIZE /\ Len(outBuffer) <= OUT_BUFFER_SIZE)
    /\ [][/\ Len(out') >= Len(out)
          /\ SubSeq(out', 1, Len(out)) = out
          /\ NaturalFrom(out', Len(out) + 1) =>
                Contents' = Contents \o Lines(out', Len(out) + 1)]_vars
    /\ [](Finished => bufferPos = 0 /\ summary.bytes = tempFile)

\* a 5x5 run after its third record: a flush has split a record between the
\* temporary file and the buffer, and the two together are the three lines
C11_Witness ==
    /\ N = 5
    /\ Len(out) = 3
    /\ bufferPos > 0
    /\ tempFile # <<>>
    /\ tempFile[Len(tempFile)] # 10
    /\ Contents = Lines(out, 1)

=============================================================================
